---- MODULE Spec2Model ----
(***************************************************************************)
(* Model of whatlang's confidence estimator (src/src/detect.rs,            *)
(* detect_lang_based_on_script) and of the Cyrillic alphabet scorer        *)
(* (src/src/dev/alphabet/cyrillic.rs, alphabet_calculate_scores).          *)
(*                                                                         *)
(* f64 values are modelled as extended rationals <<n, d>>: d > 0 is the    *)
(* finite value n/d in lowest terms, <<1, 0>> is +inf, <<-1, 0>> is -inf   *)
(* and <<0, 0>> is NaN.  Arithmetic and comparisons follow IEEE 754 for    *)
(* the special values; finite results are exact (rounding is abstracted). *)
(* Characters are Unicode code points.                                     *)
(***************************************************************************)
EXTENDS Integers, Sequences, FiniteSets, TLC

VARIABLES normalized_scores, trigram_count, result, text, outcome, pc

vars == <<normalized_scores, trigram_count, result, text, outcome, pc>>

(***************************************************************************)
(* Bounds of the model.                                                    *)
(***************************************************************************)
MaxListLen == 3
MaxTrigramCount == 4
MaxTextLen == 3

(***************************************************************************)
(* f64 arithmetic.                                                         *)
(***************************************************************************)
Abs(i) == IF i < 0 THEN -i ELSE i

Sign(i) == IF i > 0 THEN 1 ELSE IF i < 0 THEN -1 ELSE 0

RECURSIVE Gcd(_, _)
Gcd(a, b) == IF b = 0 THEN a ELSE Gcd(b, a % b)

NaN == <<0, 0>>
PosInf == <<1, 0>>
NegInf == <<-1, 0>>

IsNaN(x) == x[2] = 0 /\ x[1] = 0
IsInf(x) == x[2] = 0 /\ x[1] # 0
IsFinite(x) == x[2] > 0

\* The finite value n/d (d # 0) in lowest terms with a positive denominator.
Frac(n, d) ==
    LET g == Gcd(Abs(n), Abs(d))
        s == Sign(d)
    IN  <<(s * n) \div g, (s * d) \div g>>

\* `n as f64` for an integer n.
FromInt(n) == <<n, 1>>

F0 == FromInt(0)
F1 == FromInt(1)

\* a == b on f64: false when either side is NaN.
FEq(a, b) == ~IsNaN(a) /\ ~IsNaN(b) /\ a = b

\* a > b on f64: false when either side is NaN.
FGt(a, b) ==
    /\ ~IsNaN(a)
    /\ ~IsNaN(b)
    /\ IF IsInf(a) /\ IsInf(b) THEN a[1] > b[1]
       ELSE IF IsInf(a) THEN a[1] > 0
       ELSE IF IsInf(b) THEN b[1] < 0
       ELSE a[1] * b[2] > b[1] * a[2]

FGe(a, b) == FGt(a, b) \/ FEq(a, b)

FNeg(a) == <<-a[1], a[2]>>

\* a + b on f64.
FAdd(a, b) ==
    IF IsNaN(a) \/ IsNaN(b) THEN NaN
    ELSE IF IsInf(a) /\ IsInf(b) THEN (IF a = b THEN a ELSE NaN)
    ELSE IF IsInf(a) THEN a
    ELSE IF IsInf(b) THEN b
    ELSE Frac(a[1] * b[2] + b[1] * a[2], a[2] * b[2])

\* a - b on f64.
FSub(a, b) == FAdd(a, FNeg(b))

\* a / b on f64 (zeros are positive zeros: they come from unsigned counts
\* or from equal operands of a subtraction).
FDiv(a, b) ==
    IF IsNaN(a) \/ IsNaN(b) THEN NaN
    ELSE IF IsInf(a) /\ IsInf(b) THEN NaN
    ELSE IF IsInf(a) THEN (IF b[1] < 0 THEN FNeg(a) ELSE a)
    ELSE IF IsInf(b) THEN F0
    ELSE IF b[1] = 0 THEN (IF a[1] = 0 THEN NaN
                           ELSE IF a[1] > 0 THEN PosInf ELSE NegInf)
    ELSE Frac(a[1] * b[2], a[2] * b[1])

(***************************************************************************)
(* detect.rs: the confidence estimator.                                    *)
(***************************************************************************)
NoLang == "none"

\* Option<(Lang, f64)>
None == [some |-> FALSE, lang |-> NoLang, confidence |-> NaN]
Some(lang, confidence) == [some |-> TRUE, lang |-> lang, confidence |-> confidence]

\* Mutant: the saturation at 1.0 is missing.
MagnitudeConfidenceNoClamp(score1) == FDiv(score1, FromInt(500))

\* let mut confidence = f64::from(score1) / 500.0;
\* if confidence > 1.0 { confidence = 1.0; }
MagnitudeConfidence(score1) ==
    LET confidence == FDiv(score1, FromInt(500))
    IN  IF FGt(confidence, F1) THEN F1 ELSE confidence

\* Mutant: the operands of the subtraction are swapped.
RateSwapped(score1, score2) == FDiv(FSub(score2, score1), score2)

\* let rate = f64::from(score1 - score2) / f64::from(score2);
Rate(score1, score2) == FDiv(FSub(score1, score2), score2)

\* Mutant: a zero trigram count is replaced by 1 before dividing.
ConfidentRateGuarded(count) ==
    FAdd(FDiv(FromInt(12), FromInt(IF count = 0 THEN 1 ELSE count)), Frac(5, 100))

\* let confident_rate = (12.0 / outcome.trigram_count as f64) + 0.05;
ConfidentRate(count) == FAdd(FDiv(FromInt(12), FromInt(count)), Frac(5, 100))

\* Mutant: the linear branch divides the wrong way round.
RateConfidenceInverted(rate, confident_rate) ==
    IF FGt(rate, confident_rate) THEN F1 ELSE FDiv(confident_rate, rate)

\* let confidence = if rate > confident_rate { 1.0 } else { rate / confident_rate };
RateConfidence(rate, confident_rate) ==
    IF FGt(rate, confident_rate) THEN F1 ELSE FDiv(rate, confident_rate)

\* Mutant: a zero top score is not treated as "no language".
TopTwoNoZeroCheck(lang1, score1, score2, count) ==
    IF FEq(score2, F0) THEN Some(lang1, MagnitudeConfidence(score1))
    ELSE Some(lang1, RateConfidence(Rate(score1, score2), ConfidentRate(count)))

\* The decision on the top two entries (list of length >= 2).
TopTwo(lang1, score1, score2, count) ==
    IF FEq(score1, F0) THEN None
    ELSE IF FEq(score2, F0) THEN Some(lang1, MagnitudeConfidence(score1))
    ELSE Some(lang1, RateConfidence(Rate(score1, score2), ConfidentRate(count)))

\* Mutant: a single entry goes through the magnitude formula.
SingleEntryScaled(pair) == Some(pair[1], MagnitudeConfidence(pair[2]))

\* let pair = normalized_scores[0]; return Some(pair);
SingleEntry(pair) == Some(pair[1], pair[2])

\* detect_lang_based_on_script, given the Outcome's normalized_scores and
\* trigram_count.
detect_lang_based_on_script(scores, count) ==
    IF Len(scores) = 0 THEN None
    ELSE IF Len(scores) = 1 THEN SingleEntry(scores[1])
    ELSE TopTwo(scores[1][1], scores[1][2], scores[2][2], count)

(***************************************************************************)
(* dev/alphabet/cyrillic.rs: the alphabet scorer.                          *)
(***************************************************************************)
BUL == {1040, 1072, 1041, 1073, 1042, 1074, 1043, 1075, 1044, 1076, 1045, 1077,
        1046, 1078, 1047, 1079, 1048, 1080, 1049, 1081, 1050, 1082, 1051, 1083,
        1052, 1084, 1053, 1085, 1054, 1086, 1055, 1087, 1056, 1088, 1057, 1089,
        1058, 1090, 1059, 1091, 1060, 1092, 1061, 1093, 1062, 1094, 1063, 1095,
        1064, 1096, 1065, 1097, 1066, 1098, 1068, 1100, 1070, 1102, 1071, 1103}

RUS == {1040, 1072, 1041, 1073, 1042, 1074, 1043, 1075, 1044, 1076, 1045, 1077,
        1025, 1105, 1046, 1078, 1047, 1079, 1048, 1080, 1049, 1081, 1050, 1082,
        1051, 1083, 1052, 1084, 1053, 1085, 1054, 1086, 1055, 1087, 1056, 1088,
        1057, 1089, 1058, 1090, 1059, 1091, 1060, 1092, 1061, 1093, 1062, 1094,
        1063, 1095, 1064, 1096, 1065, 1097, 1066, 1098, 1067, 1099, 1068, 1100,
        1069, 1101, 1070, 1102, 1071, 1103}

UKR == {1040, 1072, 1041, 1073, 1042, 1074, 1043, 1075, 1168, 1169, 1044, 1076,
        1045, 1077, 1028, 1108, 1046, 1078, 1047, 1079, 1048, 1080, 1030, 1110,
        1031, 1111, 1049, 1081, 1050, 1082, 1051, 1083, 1052, 1084, 1053, 1085,
        1054, 1086, 1055, 1087, 1056, 1088, 1057, 1089, 1058, 1090, 1059, 1091,
        1060, 1092, 1061, 1093, 1062, 1094, 1063, 1095, 1064, 1096, 1065, 1097,
        1068, 1100, 1070, 1102, 1071, 1103}

BEL == {1040, 1072, 1041, 1073, 1042, 1074, 1043, 1075, 1044, 1076, 1045, 1077,
        1025, 1105, 1046, 1078, 1047, 1079, 1030, 1110, 1049, 1081, 1050, 1082,
        1051, 1083, 1052, 1084, 1053, 1085, 1054, 1086, 1055, 1087, 1056, 1088,
        1057, 1089, 1058, 1090, 1059, 1091, 1038, 1118, 1060, 1092, 1061, 1093,
        1062, 1094, 1063, 1095, 1064, 1096, 1067, 1099, 1068, 1100, 1069, 1101,
        1070, 1102, 1071, 1103}

SRP == {1040, 1072, 1041, 1073, 1042, 1074, 1043, 1075, 1044, 1076, 1026, 1106,
        1045, 1077, 1046, 1078, 1047, 1079, 1048, 1080, 1032, 1112, 1050, 1082,
        1051, 1083, 1033, 1113, 1052, 1084, 1053, 1085, 1034, 1114, 1054, 1086,
        1055, 1087, 1056, 1088, 1057, 1089, 1058, 1090, 1035, 1115, 1059, 1091,
        1060, 1092, 1061, 1093, 1062, 1094, 1063, 1095, 1039, 1119, 1064, 1096}

MKD == {1040, 1072, 1041, 1073, 1042, 1074, 1043, 1075, 1044, 1076, 1027, 1107,
        1045, 1077, 1046, 1078, 1047, 1079, 1029, 1109, 1048, 1080, 1032, 1112,
        1050, 1082, 1051, 1083, 1033, 1113, 1052, 1084, 1053, 1085, 1034, 1114,
        1054, 1086, 1055, 1087, 1056, 1088, 1057, 1089, 1058, 1090, 1036, 1116,
        1059, 1091, 1060, 1092, 1061, 1093, 1062, 1094, 1063, 1095, 1039, 1119,
        1064, 1096}

\* The languages in the order of the initial raw_scores vector.
AlphabetLangs == <<"Rus", "Ukr", "Bul", "Bel", "Mkd", "Srp">>

\* get_lang_chars: any other language panics (no OTHER arm).
get_lang_chars(lang) ==
    CASE lang = "Rus" -> RUS
      [] lang = "Ukr" -> UKR
      [] lang = "Bul" -> BUL
      [] lang = "Bel" -> BEL
      [] lang = "Srp" -> SRP
      [] lang = "Mkd" -> MKD

\* utils::is_stop_char: whitespace, punctuation and digits carry no signal.
is_stop_char(ch) ==
    \/ ch \in {9, 10, 13, 32}
    \/ ch \in 33..47
    \/ ch \in 48..57
    \/ ch \in 58..64
    \/ ch \in 91..96
    \/ ch \in 123..126

\* text.chars().filter(|&ch| !is_stop_char(ch)).count()
RECURSIVE CountNonStop(_)
CountNonStop(t) ==
    IF t = <<>> THEN 0
    ELSE (IF is_stop_char(Head(t)) THEN 0 ELSE 1) + CountNonStop(Tail(t))

\* The inner loop over text.chars() for one language: the i32 score after
\* the whole text (no text of the model comes near the i32 range).
RECURSIVE LangScore(_, _)
LangScore(alphabet, t) ==
    IF t = <<>> THEN 0
    ELSE LET ch == t[Len(t)]
             score == LangScore(alphabet, SubSeq(t, 1, Len(t) - 1))
         IN  IF is_stop_char(ch) THEN score
             ELSE IF ch \in alphabet THEN score + 1
             ELSE score - 1

\* The outer loop: raw_scores after scoring, in the initial order.
SignedScores(t) ==
    [i \in DOMAIN AlphabetLangs |->
        <<AlphabetLangs[i], LangScore(get_lang_chars(AlphabetLangs[i]), t)>>]

\* Insert x into the descending sequence s behind every entry whose score is
\* not lower (Vec::sort_by is stable).
InsertDesc(s, x) ==
    LET p == Cardinality({i \in DOMAIN s : s[i][2] >= x[2]})
    IN  SubSeq(s, 1, p) \o <<x>> \o SubSeq(s, p + 1, Len(s))

\* Mutant: the comparator is the wrong way round (ascending order).
RECURSIVE SortAscending(_)
SortAscending(s) ==
    IF s = <<>> THEN <<>>
    ELSE LET x == s[Len(s)]
             r == SortAscending(SubSeq(s, 1, Len(s) - 1))
             p == Cardinality({i \in DOMAIN r : r[i][2] <= x[2]})
         IN  SubSeq(r, 1, p) \o <<x>> \o SubSeq(r, p + 1, Len(r))

\* raw_scores.sort_by(|a, b| b.1.cmp(&a.1))
RECURSIVE SortDescending(_)
SortDescending(s) ==
    IF s = <<>> THEN <<>>
    ELSE InsertDesc(SortDescending(SubSeq(s, 1, Len(s) - 1)), s[Len(s)])

\* Mutant: the earlier, unclamped variant (negative scores are kept).
ClampMissing(s) == [i \in DOMAIN s |-> <<s[i][1], s[i][2]>>]

\* let score = if s < 0 { 0usize } else { s as usize };
Clamp(s) == [i \in DOMAIN s |-> <<s[i][1], IF s[i][2] < 0 THEN 0 ELSE s[i][2]>>]

\* let normalized_score = raw_score as f64 / max_raw_score as f64;
Normalize(raw, max_raw_score) ==
    [i \in DOMAIN raw |-> <<raw[i][1], FDiv(FromInt(raw[i][2]), FromInt(max_raw_score))>>]

\* alphabet_calculate_scores
alphabet_calculate_scores(t) ==
    LET max_raw_score == CountNonStop(t)
        raw_scores == Clamp(SortDescending(SignedScores(t)))
    IN  [max_raw_score |-> max_raw_score,
         raw_scores |-> raw_scores,
         normalized_scores |-> Normalize(raw_scores, max_raw_score)]

(***************************************************************************)
(* Inputs of the model.                                                    *)
(***************************************************************************)
\* Score values: a negative one, zero, values inside (0, 1], and the
\* magnitudes 250 and 600 on either side of the 500.0 saturation point.
\* 1 over 20/81 gives the rate 4.05 - 1 = 3.05 = 12/4 + 0.05.
Scores == {<<-1, 2>>, F0, <<20, 81>>, F1, <<250, 1>>, <<600, 1>>}

LangOrders ==
    {<<"Rus", "Ukr", "Bul", "Bel", "Mkd", "Srp">>,
     <<"Ukr", "Bel", "Rus", "Srp", "Bul", "Mkd">>}

IsDescending(s) == \A i \in 1..(Len(s) - 1) : FGe(s[i], s[i + 1])

\* The descending-sorted (Lang, score) lists of length 0..MaxListLen.
ScoreLists ==
    UNION {{[i \in 1..k |-> <<o[i], s[i]>>] :
                o \in LangOrders, s \in {q \in [1..k -> Scores] : IsDescending(q)}} :
           k \in 0..MaxListLen}

\* Characters of the model's texts: space and digit (stop characters), a
\* Latin letter (in no alphabet), and Cyrillic letters of each kind:
\* 1072 in all six alphabets, 1098 in BUL and RUS, 1110 in UKR and BEL,
\* 1111 only in UKR, 1118 only in BEL, 1106 only in SRP, 1107 only in MKD.
TextChars == {32, 49, 122, 1072, 1098, 1110, 1111, 1118, 1106, 1107}

Texts == UNION {[1..k -> TextChars] : k \in 0..MaxTextLen}

NoOutcome == [max_raw_score |-> 0, raw_scores |-> <<>>, normalized_scores |-> <<>>]

(***************************************************************************)
(* The confidence estimator as a machine: every step is one call of        *)
(* detect_lang_based_on_script on a new score list; the trigram count of   *)
(* a behaviour is fixed.                                                   *)
(***************************************************************************)
InitDetect ==
    /\ normalized_scores = <<>>
    /\ trigram_count \in 0..MaxTrigramCount
    /\ result = None
    /\ text = <<>>
    /\ outcome = NoOutcome
    /\ pc = "idle"

Detect ==
    /\ \E scores \in ScoreLists :
          /\ normalized_scores' = scores
          /\ result' = detect_lang_based_on_script(scores, trigram_count)
    /\ UNCHANGED <<trigram_count, text, outcome, pc>>

NextDetect == Detect

SpecDetect == InitDetect /\ [][NextDetect]_vars

(***************************************************************************)
(* The alphabet scorer as a machine: one call on the text chosen at the    *)
(* start.                                                                  *)
(***************************************************************************)
InitAlphabet ==
    /\ text \in Texts
    /\ outcome = NoOutcome
    /\ pc = "input"
    /\ normalized_scores = <<>>
    /\ trigram_count = 0
    /\ result = None

Calculate ==
    /\ pc = "input"
    /\ outcome' = alphabet_calculate_scores(text)
    /\ pc' = "done"
    /\ UNCHANGED <<text, normalized_scores, trigram_count, result>>

NextAlphabet == Calculate

SpecAlphabet == InitAlphabet /\ [][NextAlphabet]_vars

(***************************************************************************)
(* Properties of the confidence estimator (checked under SpecDetect).      *)
(***************************************************************************)
lang1 == normalized_scores[1][1]
score1 == normalized_scores[1][2]
score2 == normalized_scores[2][2]

\* The value min(1, x / 500) of a finite x = n/d, by integer arithmetic.
MinOneOver500(x) == IF x[1] > 500 * x[2] THEN F1 ELSE Frac(x[1], 500 * x[2])

\* C1: whenever a result is returned for a non-empty descending list, its
\* confidence lies in [0, 1].
C1_ConfidenceInUnitInterval ==
    (Len(normalized_scores) >= 1 /\ IsDescending([i \in DOMAIN normalized_scores |-> normalized_scores[i][2]])
        /\ result.some)
        => (FGe(result.confidence, F0) /\ FGe(F1, result.confidence))

\* C2 (as claimed): between two calls with the same trigram count on lists of
\* length >= 2, a gap score1 - score2 that does not shrink gives a confidence
\* that does not drop.
C2_GapMonotone ==
    [][(/\ Len(normalized_scores) >= 2
        /\ Len(normalized_scores') >= 2
        /\ result.some
        /\ result'.some
        /\ FGe(FSub(score1', score2'), FSub(score1, score2)))
          => FGe(result'.confidence, result.confidence)]_vars

\* C2 (amended): between two calls with the same trigram count on lists of
\* length >= 2 with the same runner-up score score2 >= 0 that both return a
\* result, a top score that does not shrink gives a confidence that does not
\* drop.
C2_Score1Monotone ==
    [][(/\ Len(normalized_scores) >= 2
        /\ Len(normalized_scores') >= 2
        /\ result.some
        /\ result'.some
        /\ score2' = score2
        /\ FGe(score2, F0)
        /\ FGe(score1', score1))
          => FGe(result'.confidence, result.confidence)]_vars

\* The rate branch has answered strictly inside (0, 1), where the
\* confidence still moves with score1.
C2_Witness ==
    /\ Len(normalized_scores) >= 2
    /\ FGt(score2, F0)
    /\ trigram_count > 0
    /\ result.some
    /\ FGt(result.confidence, F0)
    /\ FGt(F1, result.confidence)

\* C3: a positive top score over a runner-up of exactly 0 returns the first
\* language with confidence min(1, score1 / 500), whatever the trigram count
\* (250 gives 1/2, 600 gives 1).
C3_MagnitudeFormula ==
    (Len(normalized_scores) >= 2 /\ FGt(score1, F0) /\ FEq(score2, F0))
        => /\ result.some
           /\ result.lang = lang1
           /\ result.confidence = MinOneOver500(score1)
           /\ (score1 = FromInt(250) => result.confidence = <<1, 2>>)
           /\ (score1 = FromInt(600) => result.confidence = F1)

C3_Witness ==
    /\ Len(normalized_scores) >= 2
    /\ score1 = FromInt(600)
    /\ FEq(score2, F0)
    /\ trigram_count > 0
    /\ result = Some(lang1, F1)

\* C4: an empty list, and every list of length >= 2 whose top score is
\* exactly 0, returns None.
C4_NoSignalIsNone ==
    /\ (Len(normalized_scores) = 0 => result = None)
    /\ ((Len(normalized_scores) >= 2 /\ FEq(score1, F0)) => result = None)

C4_Witness ==
    /\ Len(normalized_scores) >= 2
    /\ FEq(score1, F0)
    /\ FGt(F0, score2)
    /\ ~result.some

\* C5: a list of exactly one entry is returned unchanged: its language, and
\* its score as the confidence.
C5_SingleEntryVerbatim ==
    Len(normalized_scores) = 1
        => /\ result.some
           /\ result.lang = normalized_scores[1][1]
           /\ result.confidence = normalized_scores[1][2]

C5_Witness ==
    /\ Len(normalized_scores) = 1
    /\ normalized_scores[1][2] = F0
    /\ result = Some(normalized_scores[1][1], F0)

\* rate = (score1 - score2) / score2 and confident_rate = 12 / count + 1/20
\* as integer fractions: rate = RateNum / RateDen (RateDen may be negative),
\* confident_rate = (240 + count) / (20 * count).
RateNum == score1[1] * score2[2] - score2[1] * score1[2]
RateDen == score2[1] * score1[2]
RateAbove ==
    IF RateDen > 0
    THEN RateNum * 20 * trigram_count > (240 + trigram_count) * RateDen
    ELSE RateNum * 20 * trigram_count < (240 + trigram_count) * RateDen
RateEqual == RateNum * 20 * trigram_count = (240 + trigram_count) * RateDen

\* C8: with score1 > 0, score2 # 0 and a positive trigram count, the result
\* is the first language with confidence 1 if rate > confident_rate and
\* rate / confident_rate otherwise; rate = confident_rate gives 1 and
\* score1 = score2 gives 0.
C8_RateFormula ==
    (/\ Len(normalized_scores) >= 2
     /\ FGt(score1, F0)
     /\ ~FEq(score2, F0)
     /\ trigram_count > 0)
        => /\ result.some
           /\ result.lang = lang1
           /\ result.confidence =
                 IF RateAbove THEN F1
                 ELSE Frac(RateNum * 20 * trigram_count, RateDen * (240 + trigram_count))
           /\ (RateEqual => result.confidence = F1)
           /\ (score1 = score2 => result.confidence = F0)

\* rate equals confident_rate: 3.05 at trigram_count = 4.
C8_Witness ==
    /\ Len(normalized_scores) >= 2
    /\ FGt(score1, F0)
    /\ FGt(score2, F0)
    /\ trigram_count > 0
    /\ RateEqual
    /\ result = Some(lang1, F1)

\* C9: with score1 > 0, score2 > 0 and a trigram count of 0 the result is the
\* first language with confidence exactly 0.
C9_ZeroTrigramCount ==
    (/\ Len(normalized_scores) >= 2
     /\ FGt(score1, F0)
     /\ FGt(score2, F0)
     /\ trigram_count = 0)
        => result = Some(lang1, F0)

C9_Witness ==
    /\ Len(normalized_scores) >= 2
    /\ FGt(score2, F0)
    /\ FGt(score1, score2)
    /\ trigram_count = 0
    /\ result = Some(lang1, F0)

(***************************************************************************)
(* Properties of the alphabet scorer (checked under SpecAlphabet).         *)
(***************************************************************************)
NonStop == {i \in DOMAIN text : ~is_stop_char(text[i])}
InCount(lang) == Cardinality({i \in NonStop : text[i] \in get_lang_chars(lang)})
OutCount(lang) == Cardinality({i \in NonStop : text[i] \notin get_lang_chars(lang)})
Net(lang) == InCount(lang) - OutCount(lang)
SixLangs == {"Rus", "Ukr", "Bul", "Bel", "Mkd", "Srp"}

\* Every non-stop character of the text is in lang's alphabet and in no
\* other of the six.
Exclusive(lang) ==
    \A i \in NonStop :
        \A l \in SixLangs : (text[i] \in get_lang_chars(l)) <=> (l = lang)

\* C6: a text with at least one non-stop character, all of them letters of
\* one language only, gives that language the raw score max_raw_score in
\* first place of both lists and every other language raw and normalized
\* score 0.
C6_ExclusiveLetters ==
    \A lang \in SixLangs :
        (pc = "done" /\ NonStop # {} /\ Exclusive(lang))
            => /\ outcome.max_raw_score = Cardinality(NonStop)
               /\ Len(outcome.raw_scores) = 6
               /\ Len(outcome.normalized_scores) = 6
               /\ outcome.raw_scores[1] = <<lang, outcome.max_raw_score>>
               /\ outcome.normalized_scores[1][1] = lang
               /\ \A i \in 2..6 :
                     /\ outcome.raw_scores[i][2] = 0
                     /\ outcome.normalized_scores[i][2] = F0

\* Two letters found only in the Serbian alphabet, and a stop character.
C6_Witness ==
    /\ pc = "done"
    /\ Cardinality(NonStop) = 2
    /\ Len(text) = 3
    /\ Exclusive("Srp")
    /\ outcome.raw_scores[1] = <<"Srp", 2>>
    /\ outcome.normalized_scores[2][2] = F0

\* C7: for the empty text and every text of stop characters only,
\* max_raw_score is 0 and each of the six normalized scores is exactly 0
\* (in particular not NaN).
C7_NoSignalTextScoresZero ==
    (pc = "done" /\ NonStop = {})
        => /\ outcome.max_raw_score = 0
           /\ Len(outcome.normalized_scores) = 6
           /\ \A i \in 1..6 : FEq(outcome.normalized_scores[i][2], F0)

\* C10: each of the six languages is emitted once, with raw score
\* max(0, in - out); the entries are ordered by the signed value in - out
\* (the clamp comes after the sort) and the emitted scores do not increase.
C10_NetScoreClamped ==
    pc = "done"
        => /\ Len(outcome.raw_scores) = 6
           /\ {outcome.raw_scores[i][1] : i \in 1..6} = SixLangs
           /\ \A i \in 1..6 :
                 outcome.raw_scores[i][2] =
                     (IF Net(outcome.raw_scores[i][1]) < 0 THEN 0
                      ELSE Net(outcome.raw_scores[i][1]))
           /\ \A i \in 1..5 :
                 /\ Net(outcome.raw_scores[i][1]) >= Net(outcome.raw_scores[i + 1][1])
                 /\ outcome.raw_scores[i][2] >= outcome.raw_scores[i + 1][2]

\* Some language has a positive net score and some a negative one that is
\* emitted as 0.
C10_Witness ==
    /\ pc = "done"
    /\ outcome.raw_scores[1][2] > 0
    /\ \E i \in 2..6 :
          /\ Net(outcome.raw_scores[i][1]) < 0
          /\ outcome.raw_scores[i][2] = 0

====
